---- MODULE Spec2Model ----
(***************************************************************************)
(* Model of mkosi's Gentoo distribution backend                            *)
(* (mkosi/distributions/gentoo.py) and of the workspace state container    *)
(* (mkosi/state.py).                                                       *)
(*                                                                         *)
(* Spec       : sessions that run GentooInstaller.install (one action per  *)
(*              step of the pipeline) and GentooInstaller.install_packages *)
(*              against a cache directory that survives between sessions.  *)
(* SpecState  : the construction of MkosiState, one action per statement   *)
(*              of __init__.                                               *)
(***************************************************************************)
EXTENDS Integers, Sequences, FiniteSets, TLC

(* ------------------------------ bounds --------------------------------- *)
MaxRuns     == 2   \* install runs (sessions)
MaxSnap     == 2   \* stage3 snapshots the mirror publishes

(* ------------------------- mkosi/state.py ------------------------------ *)
VARIABLES
    sconfig,     \* MkosiConfig fields read by MkosiState: cache_dir, distribution, release
    fs,          \* set of directories that exist (paths are sequences of components)
    spc          \* position inside MkosiState.__init__

svars == <<sconfig, fs, spc>>

(* ------------------- mkosi/distributions/gentoo.py --------------------- *)
VARIABLES
    config,      \* MkosiConfig fields read by the backend
    pkgmngr,     \* files of state.pkgmngr (package manager trees of the session)
    root,        \* state.root: kernel sources and vmlinuz links
    tar,         \* cache_dir/stage3.tar
    stage3,      \* cache_dir/stage3
    dirs,        \* cache_dir subdirectories binpkgs, distfiles, repos, repos/gentoo
    latest,      \* newest snapshot the mirror has published
    rmtime,      \* Last-Modified of each published snapshot on the mirror
    now,         \* clock
    pc,          \* next step of install, or "done" / "failed"
    arch,        \* local arch of install
    all_lines,   \* local all_lines of install
    stage3_latest, \* local stage3_latest of install
    old,         \* local old of install
    error,       \* diagnostic of the failure that ended the run
    trace,       \* steps of install executed in this run, in order
    calls,       \* sandboxed invocations (bwrap) started in this run
    cache0,      \* the cache as it was when this run started
    runs,        \* number of install runs started
    pkgcall,     \* the latest invocation install_packages started in this session, if any
    reached,     \* runs that reached the make.conf append since the last extraction
    appends      \* the same, since make.conf was last written anew

gvars == <<config, pkgmngr, root, tar, stage3, dirs, latest, rmtime, now, pc, arch,
           all_lines, stage3_latest, old, error, trace, calls, cache0, runs,
           pkgcall, reached, appends>>

vars == <<sconfig, fs, spc, config, pkgmngr, root, tar, stage3, dirs, latest, rmtime,
          now, pc, arch, all_lines, stage3_latest, old, error, trace, calls, cache0,
          runs, pkgcall, reached, appends>>

(* ===================== helpers of the Gentoo backend =================== *)

Architectures == {"x86_64", "arm64", "arm", "riscv64"}

Unsupported == "none"   \* dict.get() finding no entry (None)

\* Variant: an architecture without an entry keeps its own name.
architecture_passthrough(a) ==
    CASE a = "x86_64" -> "amd64"
      [] a = "arm64"  -> "arm64"
      [] a = "arm"    -> "arm"
      [] OTHER        -> a

\* GentooInstaller.architecture: the name Gentoo gives an architecture.
architecture(a) ==
    CASE a = "x86_64" -> "amd64"
      [] a = "arm64"  -> "arm64"
      [] a = "arm"    -> "arm"
      [] OTHER        -> Unsupported

\* Messages handed to die(), as sequences of words.
DieProfile == <<"profile", "names", "changed", "upstream?">>
DieArch    == <<"Architecture", "None", "is", "not", "supported", "by", "Gentoo">>
NoError    == <<>>
Raised(what) == <<what>>   \* an exception raised by a helper or an external command

Mentions(msg, word) == \E i \in 1..Len(msg) : msg[i] = word

(* ---- the manifest latest-stage3.txt ---- *)
Profile == "llvm-systemd-mergedusr"

Comment == [kind |-> "comment", ts |-> 0, arch |-> "", profile |-> ""]
Entry(ts, a, p) == [kind |-> "entry", ts |-> ts, arch |-> a, profile |-> p]

\* Variant: the pattern accepts any profile.
Match_anyprofile(a, line) ==
    /\ line.kind = "entry"
    /\ line.arch = a

\* re.match(regexp, line) with
\* regexp = ^[0-9]+T[0-9]+Z/stage3-{arch}-llvm-systemd-mergedusr-[0-9]+T[0-9]+Z\.tar\.xz
Match(a, line) ==
    /\ line.kind = "entry"
    /\ line.arch = a
    /\ line.profile = Profile

\* The for/else loop over all_lines: index of the first matching line, 0 when
\* the loop runs to its else branch.
FirstMatch(a, lines) ==
    IF \E i \in 1..Len(lines) : Match(a, lines[i])
    THEN CHOOSE i \in 1..Len(lines) :
            /\ Match(a, lines[i])
            /\ \A j \in 1..(i - 1) : ~Match(a, lines[j])
    ELSE 0

\* Manifests the mirror may serve for architecture a while snapshot l is the newest.
Manifests(a, l) ==
    { <<Comment, Entry(l, a, Profile)>>,
      <<Entry(l, a, "openrc"), Entry(l, a, Profile)>>,
      <<Comment, Entry(l, a, "openrc")>>,
      <<Entry(l, "other", Profile)>>,
      <<Comment>> }
    \cup (IF l > 1 THEN { <<Entry(l, a, Profile), Entry(l - 1, a, Profile)>> } ELSE {})

(* ---- the environment of emerge ---- *)
EmptyEnv == [k \in {} |-> ""]

UserEnvs ==
    { EmptyEnv,
      [k \in {"USE"} |-> "custom"],
      [k \in {"PKGDIR", "CFLAGS"} |-> IF k = "PKGDIR" THEN "/srv/binpkgs" ELSE "-O2"] }

CacheDir == "/cache"   \* state.cache_dir of the sessions of Spec

\* Variant: the earlier layer keeps its keys.
Merge_keepfirst(a, b) ==
    [k \in DOMAIN a \cup DOMAIN b |-> IF k \in DOMAIN a THEN a[k] ELSE b[k]]

\* dict | dict
Merge(a, b) ==
    [k \in DOMAIN a \cup DOMAIN b |-> IF k \in DOMAIN b THEN b[k] ELSE a[k]]

EmergeDefaults ==
    [k \in {"PKGDIR", "DISTDIR"} |->
        IF k = "PKGDIR" THEN CacheDir \o "/binpkgs" ELSE CacheDir \o "/distfiles"]

DistroEnv(apivfs) == IF ~apivfs THEN [k \in {"USE"} |-> "build"] ELSE EmptyEnv

\* The env argument invoke_emerge passes to bwrap.
EmergeEnv(apivfs, user) == Merge(Merge(EmergeDefaults, DistroEnv(apivfs)), user)

\* Variant: emerge runs without network.
EmergeNetwork_off == FALSE

\* The network argument invoke_emerge passes to bwrap.
EmergeNetwork == TRUE

\* The network argument install passes to bwrap for emerge-webrsync.
WebrsyncNetwork == TRUE

(* ---- files of the cache ---- *)
FileNames == {"usr", "makeconf"}   \* stage3/usr, stage3/etc/portage/make.conf
FromPkgmngr == 0                   \* origin of a file copied from state.pkgmngr

NoFiles == [f \in {} |-> 0]

AbsentTar == [exists |-> FALSE, mtime |-> 0, snap |-> 0, complete |-> FALSE]
AbsentTree == [exists |-> FALSE, files |-> NoFiles, appended |-> 0]

\* binpkgs, distfiles and repos/gentoo, with the parent mkdir(parents=True) makes.
SubDirs == {"binpkgs", "distfiles", "repos", "repos/gentoo"}

\* Variant: an unchanged modification time counts as newer.
Newer_orequal(mtime, o) == mtime >= o

\* Variant: the comparison is the wrong way round.
Newer_reversed(mtime, o) == mtime < o

\* stage3_tar.stat().st_mtime > old
Newer(mtime, o) == mtime > o

\* not any(stage3.iterdir())
IsEmpty(tree) == DOMAIN tree.files = {}

\* A tree that holds every file of one snapshot.
Complete(tree) ==
    \E s \in 1..MaxSnap : \A f \in FileNames :
        f \in DOMAIN tree.files /\ tree.files[f] \in {s, FromPkgmngr}

\* rmtree(path): the tree is gone; an absent tree is left absent.
rmtree(tree) == AbsentTree

\* extract_tar(tar, dst) extracting the files S of the archive into dst.
extract_tar(archive, tree, S) ==
    [exists |-> TRUE,
     files |-> [f \in DOMAIN tree.files \cup S |-> IF f \in S THEN archive.snap ELSE tree.files[f]],
     appended |-> IF "makeconf" \in S THEN 0 ELSE tree.appended]

\* copy_tree(config, src, dst): the files of src are written over those of dst.
copy_tree(src, dst) ==
    [exists |-> TRUE,
     files |-> [f \in DOMAIN dst.files \cup DOMAIN src.files |->
                  IF f \in DOMAIN src.files THEN src.files[f] ELSE dst.files[f]],
     appended |-> IF "makeconf" \in DOMAIN src.files THEN src.appended ELSE dst.appended]

\* state.pkgmngr of a session: empty, or holding the user's etc/portage/make.conf.
PkgmngrTrees ==
    { [exists |-> TRUE, files |-> NoFiles, appended |-> 0],
      [exists |-> TRUE, files |-> [f \in {"makeconf"} |-> FromPkgmngr], appended |-> 0] }

Cache == [tar |-> tar, stage3 |-> stage3, dirs |-> dirs]

Step(name) == trace' = Append(trace, name)

Fail(msg) == pc' = "failed" /\ error' = msg

(* ============================ MkosiState =============================== *)

\* Paths are sequences of components; an absolute path starts with "/".
NoPath == <<>>   \* config.cache_dir is None

Workspace == <<"/", "var", "tmp", "mkosi-workspace">>

Distributions == {"gentoo", "fedora", "debian"}
Releases      == {"17.1", "39", "testing"}

\* Values of config.cache_dir: unset, a directory of its own, the directory
\* that holds the workspace.
CacheDirSettings == {NoPath, <<"/", "var", "cache", "mkosi">>, <<"/", "var", "tmp">>}

Parent(p) == SubSeq(p, 1, Len(p) - 1)

Ancestors(p) == { SubSeq(p, 1, i) : i \in 1..Len(p) }

IsPrefix(p, q) == Len(p) <= Len(q) /\ SubSeq(q, 1, Len(p)) = p

\* One path equals the other or lies inside it.
Overlap(p, q) == IsPrefix(p, q) \/ IsPrefix(q, p)

\* MkosiState.root
root_dir(ws) == Append(ws, "root")

\* MkosiState.staging
staging(ws) == Append(ws, "staging")

\* MkosiState.pkgmngr
pkgmngr_dir(ws) == Append(ws, "pkgmngr")

\* MkosiState.install_dir
install_dir(ws) == Append(ws, "dest")

\* Variant: the default cache directory leaves out the release.
cache_dir_norelease(cfg, ws) ==
    IF cfg.cache_dir # NoPath
    THEN cfg.cache_dir
    ELSE ws \o <<"cache", cfg.distribution>>

\* MkosiState.cache_dir
cache_dir(cfg, ws) ==
    IF cfg.cache_dir # NoPath
    THEN cfg.cache_dir
    ELSE ws \o <<"cache", cfg.distribution \o "~" \o cfg.release>>

\* Path.mkdir(): whether it succeeds.
MkdirOk(dirset, p, exist_ok) ==
    IF p \in dirset THEN exist_ok ELSE Parent(p) \in dirset

\* make_tree(config, path): a new directory (or subvolume) at path.
make_tree(dirset, p) == dirset \cup {p}

\* with umask(~0o755): make_tree(self.config, self.root)
MakeRoot ==
    /\ spc = "root"
    /\ IF MkdirOk(fs, root_dir(Workspace), FALSE)
       THEN fs' = make_tree(fs, root_dir(Workspace)) /\ spc' = "staging"
       ELSE spc' = "failed" /\ UNCHANGED fs
    /\ UNCHANGED <<sconfig, gvars>>

\* self.staging.mkdir()
MakeStaging ==
    /\ spc = "staging"
    /\ IF MkdirOk(fs, staging(Workspace), FALSE)
       THEN fs' = fs \cup {staging(Workspace)} /\ spc' = "pkgmngr"
       ELSE spc' = "failed" /\ UNCHANGED fs
    /\ UNCHANGED <<sconfig, gvars>>

\* self.pkgmngr.mkdir()
MakePkgmngr ==
    /\ spc = "pkgmngr"
    /\ IF MkdirOk(fs, pkgmngr_dir(Workspace), FALSE)
       THEN fs' = fs \cup {pkgmngr_dir(Workspace)} /\ spc' = "install_dir"
       ELSE spc' = "failed" /\ UNCHANGED fs
    /\ UNCHANGED <<sconfig, gvars>>

\* self.install_dir.mkdir(exist_ok=True)
MakeInstallDir ==
    /\ spc = "install_dir"
    /\ IF MkdirOk(fs, install_dir(Workspace), TRUE)
       THEN fs' = fs \cup {install_dir(Workspace)} /\ spc' = "cache_dir"
       ELSE spc' = "failed" /\ UNCHANGED fs
    /\ UNCHANGED <<sconfig, gvars>>

\* self.cache_dir.mkdir(parents=True, exist_ok=True)
MakeCacheDir ==
    /\ spc = "cache_dir"
    /\ fs' = fs \cup Ancestors(cache_dir(sconfig, Workspace))
    /\ spc' = "constructed"
    /\ UNCHANGED <<sconfig, gvars>>

StateConfigs ==
    [cache_dir : CacheDirSettings, distribution : Distributions, release : Releases]

\* Directories that may be there before MkosiState is constructed.
Preexisting(cfg) ==
    {staging(Workspace), install_dir(Workspace)}
    \cup (IF cfg.cache_dir # NoPath THEN {cfg.cache_dir} ELSE {})

Closure(dirset) == UNION { Ancestors(p) : p \in dirset }

\* The directories MkosiState creates in an empty workspace.
Constructed(cfg) ==
    Closure({root_dir(Workspace), staging(Workspace), pkgmngr_dir(Workspace),
             install_dir(Workspace), cache_dir(cfg, Workspace)})

GentooConfig == [cache_dir |-> NoPath, distribution |-> "gentoo", release |-> "17.1"]

NextState ==
    \/ MakeRoot
    \/ MakeStaging
    \/ MakePkgmngr
    \/ MakeInstallDir
    \/ MakeCacheDir

(* ======================= GentooInstaller.install ======================= *)

Call(caller, cmd, network, env, packages, apivfs) ==
    [caller |-> caller, cmd |-> cmd, network |-> network, env |-> env,
     packages |-> packages, apivfs |-> apivfs, stage3 |-> stage3, dirs |-> dirs]

\* invoke_emerge: the bwrap invocation it starts.
invoke_emerge(caller, packages, apivfs) ==
    Call(caller, "emerge", EmergeNetwork, EmergeEnv(apivfs, config.environment), packages, apivfs)

Kvers == {"6.1"}
KernelPackage == "sys-kernel/gentoo-sources"
PackageLists == { {KernelPackage, "app-editors/vim"} }

FreshRoot == [src |-> {}, vmlinuz |-> {}]

\* arch = state.config.distribution.architecture(state.config.architecture)
ResolveArchitecture ==
    /\ pc = "architecture"
    /\ Step("architecture")
    /\ arch' = architecture(config.architecture)
    /\ IF arch' = Unsupported
       THEN Fail(DieArch)
       ELSE pc' = "manifest" /\ UNCHANGED error
    /\ UNCHANGED <<svars, config, pkgmngr, root, tar, stage3, dirs, latest, rmtime, now,
                   all_lines, stage3_latest, old, calls, cache0, runs, pkgcall, reached, appends>>

\* urlopen(stage3tsf_path_url) and the search for the snapshot name.
FetchManifest ==
    /\ pc = "manifest"
    /\ Step("manifest")
    /\ \/ /\ Fail(Raised("URLError"))
          /\ UNCHANGED <<all_lines, stage3_latest>>
       \/ \E lines \in Manifests(arch, latest) :
            /\ all_lines' = lines
            /\ IF FirstMatch(arch, lines) = 0
               THEN Fail(DieProfile) /\ UNCHANGED stage3_latest
               ELSE /\ stage3_latest' = lines[FirstMatch(arch, lines)].ts
                    /\ pc' = "curl"
                    /\ UNCHANGED error
    /\ UNCHANGED <<svars, config, pkgmngr, root, tar, stage3, dirs, latest, rmtime, now,
                   arch, old, calls, cache0, runs, pkgcall, reached, appends>>

\* curl -L -o stage3_tar stage3_url [--time-cond stage3_tar]
\* Without --time-cond the archive is downloaded; with it, only when the
\* mirror's copy is newer than the local file.  A download sets the local
\* modification time to the time of writing.
Downloads == ~tar.exists \/ rmtime[stage3_latest] > tar.mtime

FetchStage3 ==
    /\ pc = "curl"
    /\ Step("curl")
    /\ old' = IF tar.exists THEN tar.mtime ELSE 0
    /\ \/ /\ Downloads
          /\ \E ok \in BOOLEAN :
               /\ tar' = [exists |-> TRUE, mtime |-> now, snap |-> stage3_latest, complete |-> ok]
               /\ now' = now + 1
               /\ IF ok THEN pc' = "rmtree" /\ UNCHANGED error
                        ELSE Fail(Raised("CalledProcessError curl"))
       \/ /\ ~Downloads
          /\ pc' = "rmtree"
          /\ UNCHANGED <<tar, now, error>>
       \/ /\ Fail(Raised("CalledProcessError curl"))
          /\ UNCHANGED <<tar, now>>
    /\ UNCHANGED <<svars, config, pkgmngr, root, stage3, dirs, latest, rmtime, arch,
                   all_lines, stage3_latest, calls, cache0, runs, pkgcall, reached, appends>>

\* if stage3_tar.stat().st_mtime > old: rmtree(stage3)
RemoveStale ==
    /\ pc = "rmtree"
    /\ IF Newer(tar.mtime, old)
       THEN /\ Step("rmtree")
            /\ \/ /\ stage3' = rmtree(stage3)
                  /\ appends' = 0
                  /\ reached' = 0
                  /\ pc' = "extract"
                  /\ UNCHANGED error
               \/ /\ stage3.exists
                  /\ Fail(Raised("CalledProcessError rm"))
                  /\ UNCHANGED <<stage3, appends, reached>>
       ELSE /\ pc' = "extract"
            /\ UNCHANGED <<trace, stage3, appends, reached, error>>
    /\ UNCHANGED <<svars, config, pkgmngr, root, tar, dirs, latest, rmtime, now, arch,
                   all_lines, stage3_latest, old, calls, cache0, runs, pkgcall>>

\* stage3.mkdir(exist_ok=True); if not any(stage3.iterdir()): extract_tar(...)
\* An extraction that fails, or is interrupted, leaves the files S it had
\* written; a truncated archive never extracts completely.
Extract ==
    /\ pc = "extract"
    /\ IF IsEmpty(stage3)
       THEN /\ trace' = trace \o <<"mkdir", "extract">>
            /\ appends' = 0
            /\ reached' = 0
            /\ \E S \in SUBSET FileNames :
                 /\ stage3' = extract_tar(tar, [stage3 EXCEPT !.exists = TRUE], S)
                 /\ IF S = FileNames /\ tar.complete
                    THEN pc' = "subdirs" /\ UNCHANGED error
                    ELSE /\ S # FileNames
                         /\ Fail(Raised("CalledProcessError tar"))
       ELSE /\ trace' = Append(trace, "mkdir")
            /\ pc' = "subdirs"
            /\ UNCHANGED <<stage3, appends, reached, error>>
    /\ UNCHANGED <<svars, config, pkgmngr, root, tar, dirs, latest, rmtime, now, arch,
                   all_lines, stage3_latest, old, calls, cache0, runs, pkgcall>>

\* for d in ("binpkgs", "distfiles", "repos/gentoo"): mkdir(parents=True, exist_ok=True)
MakeSubDirs ==
    /\ pc = "subdirs"
    /\ Step("subdirs")
    /\ dirs' = dirs \cup SubDirs
    /\ pc' = "copy"
    /\ UNCHANGED <<svars, config, pkgmngr, root, tar, stage3, latest, rmtime, now, arch,
                   all_lines, stage3_latest, old, error, calls, cache0, runs, pkgcall,
                   reached, appends>>

\* Variant: the copy goes from stage3 into state.pkgmngr.
CopyPkgmngr_reversed ==
    /\ pc = "copy"
    /\ Step("copy")
    /\ \/ /\ pkgmngr' = copy_tree(stage3, pkgmngr)
          /\ pc' = "makeconf"
          /\ UNCHANGED <<error, stage3, appends>>
       \/ /\ Fail(Raised("CalledProcessError cp"))
          /\ UNCHANGED <<stage3, appends, pkgmngr>>
    /\ UNCHANGED <<svars, config, reached, root, tar, dirs, latest, rmtime, now, arch,
                   all_lines, stage3_latest, old, calls, cache0, runs, pkgcall>>

\* copy_tree(state.config, state.pkgmngr, stage3, preserve_owner=False)
CopyPkgmngr ==
    /\ pc = "copy"
    /\ Step("copy")
    /\ \/ /\ stage3' = copy_tree(pkgmngr, stage3)
          /\ appends' = IF "makeconf" \in DOMAIN pkgmngr.files THEN 0 ELSE appends
          /\ pc' = "makeconf"
          /\ UNCHANGED <<error, pkgmngr>>
       \/ /\ Fail(Raised("CalledProcessError cp"))
          /\ UNCHANGED <<stage3, appends, pkgmngr>>
    /\ UNCHANGED <<svars, config, reached, root, tar, dirs, latest, rmtime, now, arch,
                   all_lines, stage3_latest, old, calls, cache0, runs, pkgcall>>

\* with (stage3 / "etc/portage/make.conf").open("a") as f: f.write(FEATURES line)
AppendMakeConf ==
    /\ pc = "makeconf"
    /\ Step("makeconf")
    /\ IF "makeconf" \in DOMAIN stage3.files
       THEN /\ stage3' = [stage3 EXCEPT !.appended = @ + 1]
            /\ appends' = appends + 1
            /\ reached' = reached + 1
            /\ pc' = "webrsync"
            /\ UNCHANGED error
       ELSE /\ Fail(Raised("FileNotFoundError"))
            /\ UNCHANGED <<stage3, appends, reached>>
    /\ UNCHANGED <<svars, config, pkgmngr, root, tar, dirs, latest, rmtime, now, arch,
                   all_lines, stage3_latest, old, calls, cache0, runs, pkgcall>>

\* Variant: a failure of emerge-webrsync is noted and the run goes on.
Webrsync_swallow ==
    /\ pc = "webrsync"
    /\ Step("webrsync")
    /\ calls' = Append(calls, Call("install", "emerge-webrsync", WebrsyncNetwork, EmptyEnv, {}, FALSE))
    /\ \/ pc' = "emerge" /\ UNCHANGED error
       \/ pc' = "emerge" /\ error' = Raised("CalledProcessError emerge-webrsync")
    /\ UNCHANGED <<svars, config, pkgmngr, root, tar, stage3, dirs, latest, rmtime, now,
                   arch, all_lines, stage3_latest, old, cache0, runs, pkgcall, reached, appends>>

\* bwrap(cmd=chroot + ["emerge-webrsync"], network=True, ...)
Webrsync ==
    /\ pc = "webrsync"
    /\ Step("webrsync")
    /\ calls' = Append(calls, Call("install", "emerge-webrsync", WebrsyncNetwork, EmptyEnv, {}, FALSE))
    /\ \/ pc' = "emerge" /\ UNCHANGED error
       \/ Fail(Raised("CalledProcessError emerge-webrsync"))
    /\ UNCHANGED <<svars, config, pkgmngr, root, tar, stage3, dirs, latest, rmtime, now,
                   arch, all_lines, stage3_latest, old, cache0, runs, pkgcall, reached, appends>>

\* invoke_emerge(state, packages=["sys-apps/baselayout"], apivfs=False)
EmergeBaselayout ==
    /\ pc = "emerge"
    /\ Step("emerge")
    /\ calls' = Append(calls, invoke_emerge("install", {"sys-apps/baselayout"}, FALSE))
    /\ \/ pc' = "done" /\ UNCHANGED error
       \/ Fail(Raised("CalledProcessError emerge"))
    /\ UNCHANGED <<svars, config, pkgmngr, root, tar, stage3, dirs, latest, rmtime, now,
                   arch, all_lines, stage3_latest, old, cache0, runs, pkgcall, reached, appends>>

(* =================== GentooInstaller.install_packages ================== *)

\* invoke_emerge, then a vmlinuz link for every usr/src/linux-* that lacks one.
InstallPackages ==
    /\ pc = "done"
    /\ \E packages \in PackageLists, apivfs \in BOOLEAN :
         /\ pkgcall' = <<invoke_emerge("install_packages", packages, apivfs)>>
         /\ \/ /\ Fail(Raised("CalledProcessError emerge"))
               /\ UNCHANGED root
            \/ /\ LET src == IF KernelPackage \in packages
                             THEN root.src \cup Kvers ELSE root.src
                  IN root' = [src |-> src, vmlinuz |-> root.vmlinuz \cup src]
               /\ UNCHANGED <<pc, error>>
    /\ UNCHANGED <<svars, config, pkgmngr, tar, stage3, dirs, latest, rmtime, now, arch,
                   all_lines, stage3_latest, old, trace, calls, cache0, runs, reached,
                   appends>>

(* ============================ environment ============================== *)

\* The mirror publishes the next snapshot.  install looks at the mirror twice,
\* when it fetches the manifest and when it runs curl; a snapshot published at
\* any other moment is one published before the next of these two.
Publish ==
    /\ pc \in {"manifest", "curl"}
    /\ latest < MaxSnap
    /\ latest' = latest + 1
    /\ rmtime' = [rmtime EXCEPT ![latest + 1] = now]
    /\ now' = now + 1
    /\ UNCHANGED <<svars, config, pkgmngr, root, tar, stage3, dirs, pc, arch, all_lines,
                   stage3_latest, old, error, trace, calls, cache0, runs, pkgcall,
                   reached, appends>>

\* The build is started again: a new session over the same cache directory.
NewSession ==
    /\ pc \in {"done", "failed"}
    /\ runs < MaxRuns
    /\ runs' = runs + 1
    /\ pc' = "architecture"
    /\ root' = FreshRoot
    /\ arch' = Unsupported
    /\ all_lines' = <<>>
    /\ stage3_latest' = 0
    /\ old' = 0
    /\ error' = NoError
    /\ trace' = <<>>
    /\ calls' = <<>>
    /\ pkgcall' = <<>>
    /\ cache0' = Cache
    /\ UNCHANGED <<svars, config, pkgmngr, tar, stage3, dirs, latest, rmtime, now, reached, appends>>

\* The first session, after MkosiState was constructed over an empty cache.
InitInstall ==
    /\ root = FreshRoot
    /\ tar = AbsentTar
    /\ stage3 = AbsentTree
    /\ dirs = {}
    /\ latest = 1
    /\ rmtime = [s \in 1..MaxSnap |-> 0]
    /\ now = 1
    /\ pc = "architecture"
    /\ arch = Unsupported
    /\ all_lines = <<>>
    /\ stage3_latest = 0
    /\ old = 0
    /\ error = NoError
    /\ trace = <<>>
    /\ calls = <<>>
    /\ cache0 = [tar |-> AbsentTar, stage3 |-> AbsentTree, dirs |-> {}]
    /\ runs = 1
    /\ pkgcall = <<>>
    /\ reached = 0
    /\ appends = 0

Init ==
    /\ sconfig = GentooConfig
    /\ fs = Constructed(GentooConfig)
    /\ spc = "constructed"
    /\ config \in [architecture : Architectures, environment : UserEnvs]
    /\ pkgmngr \in PkgmngrTrees
    /\ InitInstall

\* MkosiState is about to be constructed.
InitState ==
    /\ sconfig \in StateConfigs
    /\ \E pre \in SUBSET Preexisting(sconfig) : fs = Closure({Workspace} \cup pre)
    /\ spc = "root"
    /\ config = [architecture |-> "x86_64", environment |-> EmptyEnv]
    /\ pkgmngr = [exists |-> TRUE, files |-> NoFiles, appended |-> 0]
    /\ InitInstall

Next ==
    \/ ResolveArchitecture
    \/ FetchManifest
    \/ FetchStage3
    \/ RemoveStale
    \/ Extract
    \/ MakeSubDirs
    \/ CopyPkgmngr
    \/ AppendMakeConf
    \/ Webrsync
    \/ EmergeBaselayout
    \/ InstallPackages
    \/ Publish
    \/ NewSession

Spec == Init /\ [][Next]_vars

SpecState == InitState /\ [][NextState]_vars

(* ============================== claims ================================= *)

\* Every sandboxed invocation of the session so far.
AllCalls == calls \o pkgcall

InTrace(step) == \E i \in 1..Len(trace) : trace[i] = step

Last(seq) == seq[Len(seq)]

\* The step of install with this name ran in this run and did not fail.
Passed(step) == InTrace(step) /\ ~(pc = "failed" /\ Last(trace) = step)

\* The snapshot files of the tree are those of the tree the run started with.
SameSnapshotFiles ==
    /\ stage3.exists
    /\ \A f \in DOMAIN cache0.stage3.files :
         /\ f \in DOMAIN stage3.files
         /\ stage3.files[f] \in {cache0.stage3.files[f], FromPkgmngr}
    /\ \A f \in DOMAIN stage3.files \ DOMAIN cache0.stage3.files :
         stage3.files[f] = FromPkgmngr

(* ---- C1 ---- *)
\* The expected snapshot-name pattern, read off the regular expression.
ExpectedName(line) ==
    /\ line.kind = "entry"
    /\ line.arch \in {"amd64", "arm64", "arm"}
    /\ line.arch = arch
    /\ line.profile = "llvm-systemd-mergedusr"

ManifestMismatch ==
    /\ InTrace("manifest")
    /\ all_lines # <<>>
    /\ \A i \in 1..Len(all_lines) : ~ExpectedName(all_lines[i])

\* C1: when no line of the fetched manifest matches the expected snapshot-name
\* pattern, install fails with the diagnostic that mentions "profile"; in that
\* run curl is not run, the archive and the stage3 tree are left as they were,
\* and no sandboxed command is started.
C1_MismatchFailsBeforeFetch ==
    ManifestMismatch =>
        /\ pc = "failed"
        /\ Mentions(error, "profile")
        /\ trace = <<"architecture", "manifest">>
        /\ calls = <<>>
        /\ Cache = cache0

\* A mismatch in a run that starts with a cached archive and an extracted tree.
C1_Witness ==
    /\ ManifestMismatch
    /\ pc = "failed"
    /\ cache0.tar.exists
    /\ ~IsEmpty(cache0.stage3)

(* ---- C2 ---- *)
\* C2: when stage3.tar has the same modification time after the conditional
\* curl fetch as before it, rmtree is not called, and an extracted stage3 tree
\* (a stage3 directory that holds files) is reused: the archive is not
\* extracted again and the snapshot files of the tree stay as they were.
C2_UnchangedArchiveReusesTree ==
    (Passed("curl") /\ tar.mtime = old) =>
        /\ ~InTrace("rmtree")
        /\ ~IsEmpty(cache0.stage3) => (~InTrace("extract") /\ SameSnapshotFiles)

\* A run over an unchanged archive and an extracted tree that ran to its end.
C2_Witness ==
    /\ pc = "done"
    /\ tar.mtime = old
    /\ cache0.tar.exists
    /\ Complete(cache0.stage3)
    /\ InTrace("mkdir")

(* ---- C3 ---- *)
\* C3: after a run that was interrupted or failed during the download or the
\* extraction, the next run recovers by fetching and extracting again, so no
\* emerge-webrsync or emerge invocation ever runs against a partially
\* extracted stage3 tree.
C3_NoSandboxOnPartialTree ==
    \A i \in 1..Len(AllCalls) : Complete(AllCalls[i].stage3)

(* ---- C4 ---- *)
\* The value the three layers give a key: the user's, else the distro
\* override's, else the package-manager default's.
C4_Layered(k, apivfs) ==
    IF k \in DOMAIN config.environment THEN config.environment[k]
    ELSE IF k = "USE" /\ ~apivfs THEN "build"
    ELSE IF k = "PKGDIR" THEN "/cache/binpkgs"
    ELSE "/cache/distfiles"

\* C4: the environment invoke_emerge passes is the layered merge of the
\* defaults (PKGDIR, DISTDIR), the distro override (USE=build, only when apivfs
\* is false) and the user environment: every user key has the user's value,
\* every other key the value of the latest earlier layer that has it.
C4_EnvironmentLayers ==
    \A i \in 1..Len(AllCalls) :
        AllCalls[i].cmd = "emerge" =>
            /\ DOMAIN AllCalls[i].env =
                 {"PKGDIR", "DISTDIR"}
                 \cup (IF AllCalls[i].apivfs THEN {} ELSE {"USE"})
                 \cup DOMAIN config.environment
            /\ \A k \in DOMAIN AllCalls[i].env :
                 AllCalls[i].env[k] = C4_Layered(k, AllCalls[i].apivfs)

\* emerge started with apivfs false while the user sets USE=custom.
C4_Witness ==
    \E i \in 1..Len(AllCalls) :
        /\ AllCalls[i].cmd = "emerge"
        /\ ~AllCalls[i].apivfs
        /\ "USE" \in DOMAIN config.environment
        /\ config.environment["USE"] = "custom"
        /\ AllCalls[i].env["USE"] = "custom"

(* ---- C5 ---- *)
\* C5: architecture maps x86_64 to amd64, arm64 to arm64 and arm to arm and
\* fails for every other architecture; install with an unsupported
\* architecture fails before anything else of that run: no manifest or archive
\* fetch, no change to the cache directory, no sandboxed invocation.
C5_ArchitectureFirst ==
    InTrace("architecture") =>
        /\ config.architecture = "x86_64" => arch = "amd64" /\ Passed("architecture")
        /\ config.architecture = "arm64" => arch = "arm64" /\ Passed("architecture")
        /\ config.architecture = "arm" => arch = "arm" /\ Passed("architecture")
        /\ config.architecture \notin {"x86_64", "arm64", "arm"} =>
             /\ pc = "failed"
             /\ error = DieArch
             /\ trace = <<"architecture">>
             /\ all_lines = <<>>
             /\ calls = <<>>
             /\ Cache = cache0
             /\ root = FreshRoot

\* install was called with an unsupported architecture and has failed.
C5_Witness ==
    /\ config.architecture = "riscv64"
    /\ pc = "failed"
    /\ trace = <<"architecture">>
    /\ runs > 1

(* ---- C6 ---- *)
Subtrees == {root_dir(Workspace), staging(Workspace), pkgmngr_dir(Workspace),
             install_dir(Workspace)}

NonOverlapping(paths) == \A p \in paths, q \in paths : p # q => ~Overlap(p, q)

\* The cache directory the claim names for a configuration that sets none.
C6_KeyedCache(cfg) ==
    Workspace \o <<"cache">> \o <<cfg.distribution \o "~" \o cfg.release>>

\* C6 as stated: once MkosiState is constructed, root, staging, pkgmngr, dest
\* and the cache directory exist and are pairwise non-overlapping for every
\* configuration, one that overrides the cache directory included.
C6_AllFiveDisjoint ==
    spc = "constructed" =>
        /\ Subtrees \cup {cache_dir(sconfig, Workspace)} \subseteq fs
        /\ Cardinality(Subtrees \cup {cache_dir(sconfig, Workspace)}) = 5
        /\ NonOverlapping(Subtrees \cup {cache_dir(sconfig, Workspace)})
        /\ sconfig.cache_dir = NoPath => cache_dir(sconfig, Workspace) = C6_KeyedCache(sconfig)

\* C6, amended: once MkosiState is constructed, root, staging, pkgmngr and
\* dest and the cache directory exist; the four subtrees are pairwise
\* non-overlapping; a cache directory that is not overridden is
\* workspace/cache/<distribution>~<release>, differs for different
\* (distribution, release) and overlaps none of the four; an overridden cache
\* directory is used as given and may contain them.
C6_SubtreesDisjoint ==
    spc = "constructed" =>
        /\ Subtrees \cup {cache_dir(sconfig, Workspace)} \subseteq fs
        /\ Cardinality(Subtrees) = 4
        /\ NonOverlapping(Subtrees)
        /\ sconfig.cache_dir # NoPath => cache_dir(sconfig, Workspace) = sconfig.cache_dir
        /\ sconfig.cache_dir = NoPath =>
             /\ cache_dir(sconfig, Workspace) = C6_KeyedCache(sconfig)
             /\ NonOverlapping(Subtrees \cup {cache_dir(sconfig, Workspace)})
             /\ \A other \in StateConfigs :
                  (other.cache_dir = NoPath
                   /\ cache_dir(other, Workspace) = cache_dir(sconfig, Workspace))
                  => (other.distribution = sconfig.distribution
                      /\ other.release = sconfig.release)

\* MkosiState constructed with the default cache directory.
C6_Witness ==
    /\ spc = "constructed"
    /\ sconfig.cache_dir = NoPath
    /\ sconfig.distribution = "fedora"
    /\ cache_dir(sconfig, Workspace) \in fs

(* ---- C7 ---- *)
\* C7 as stated: network is enabled for emerge-webrsync and disabled for the
\* emerge invocations install_packages makes.
C7_NetworkOffForPackages ==
    \A i \in 1..Len(AllCalls) :
        /\ AllCalls[i].cmd = "emerge-webrsync" => AllCalls[i].network
        /\ AllCalls[i].caller = "install_packages" => ~AllCalls[i].network

\* C7, amended: network is enabled for every sandboxed invocation of the
\* Gentoo backend: emerge-webrsync, the emerge of install and every emerge of
\* install_packages (invoke_emerge has no per-call network switch).
C7_NetworkAlwaysOn ==
    \A i \in 1..Len(AllCalls) : AllCalls[i].network

\* install_packages has started emerge after a complete install.
C7_Witness ==
    /\ Len(AllCalls) = 3
    /\ AllCalls[1].cmd = "emerge-webrsync"
    /\ AllCalls[3].caller = "install_packages"
    /\ AllCalls[3].network

(* ---- C8 ---- *)
Order == <<"architecture", "manifest", "curl", "rmtree", "mkdir", "extract",
           "subdirs", "copy", "makeconf", "webrsync", "emerge">>

Steps == { Order[k] : k \in 1..Len(Order) }

Position == [step \in Steps |-> CHOOSE i \in 1..Len(Order) : Order[i] = step]

Optional == {"rmtree", "extract"}

C8_Ordered ==
    /\ \A i \in 1..Len(trace) : trace[i] \in Steps
    /\ \A i \in 1..(Len(trace) - 1) : Position[trace[i]] < Position[trace[i + 1]]
    /\ \A i \in 1..Len(trace), k \in 1..Len(Order) :
         (k < Position[trace[i]] /\ Order[k] \notin Optional) => InTrace(Order[k])
    /\ pc = "failed" <=> error # NoError
    /\ pc = "failed" => trace # <<>>
    /\ pc = "done" => InTrace("emerge")
    /\ pc \notin {"done", "failed"} => (pc \in {"rmtree", "extract"} \/ ~InTrace(pc))
    /\ \A i \in 1..Len(calls) :
         {"binpkgs", "distfiles", "repos", "repos/gentoo"} \subseteq calls[i].dirs
    /\ InTrace("webrsync") <=> Len(calls) >= 1
    /\ InTrace("emerge") <=> Len(calls) >= 2
    /\ Len(calls) >= 1 => calls[1].cmd = "emerge-webrsync"
    /\ Len(calls) >= 2 =>
         /\ calls[2].cmd = "emerge"
         /\ calls[2].caller = "install"
         /\ calls[2].packages = {"sys-apps/baselayout"}
         /\ ~calls[2].apivfs
         /\ "USE" \notin DOMAIN config.environment => calls[2].env["USE"] = "build"

\* After a failure nothing more of the run happens: the next thing is a new run.
C8_Aborted ==
    pc = "failed" =>
        \/ pc' = "architecture" /\ trace' = <<>> /\ runs' = runs + 1
        \/ UNCHANGED <<pc, error, trace, calls, pkgcall, tar, stage3, dirs, pkgmngr, root>>

\* The copy step as the claim words it: stage3 copied into pkgmngr.
C8_CopyIntoPkgmngr ==
    Passed("copy") =>
        \A f \in DOMAIN stage3.files :
            f \in DOMAIN pkgmngr.files /\ pkgmngr.files[f] = stage3.files[f]

\* The copy step as the code has it: state.pkgmngr copied into stage3.
C8_CopyIntoStage3 ==
    /\ pkgmngr \in PkgmngrTrees
    /\ Passed("copy") =>
         \A f \in DOMAIN pkgmngr.files :
             f \in DOMAIN stage3.files /\ stage3.files[f] = pkgmngr.files[f]

\* C8 as stated: the fixed order of steps, with stage3 copied into pkgmngr.
C8_AsStated == C8_Ordered /\ C8_CopyIntoPkgmngr

\* C8, amended: install runs its steps in the fixed order architecture,
\* manifest, curl, optional rmtree, mkdir and optional extraction, cache
\* subdirectories, copy of state.pkgmngr into stage3, make.conf,
\* emerge-webrsync, emerge of sys-apps/baselayout with apivfs=False; a step
\* runs only after every earlier step succeeded, a failure ends the run with
\* its error and nothing is retried; the cache subdirectories exist before any
\* sandboxed invocation starts.
C8_LinearPipeline == [](C8_Ordered /\ C8_CopyIntoStage3) /\ [][C8_Aborted]_vars

\* A run that failed in emerge-webrsync after all the earlier steps, the copy
\* of a pkgmngr tree that holds a make.conf among them.
C8_Witness ==
    /\ pc = "failed"
    /\ Last(trace) = "webrsync"
    /\ InTrace("rmtree")
    /\ InTrace("extract")
    /\ Len(calls) = 1
    /\ "makeconf" \in DOMAIN pkgmngr.files
    /\ stage3.files["makeconf"] = FromPkgmngr

(* ---- C9 ---- *)
\* Every snapshot file of the tree comes from the same snapshot.
OneSnapshot(tree) ==
    \A f \in DOMAIN tree.files, g \in DOMAIN tree.files :
        (tree.files[f] # FromPkgmngr /\ tree.files[g] # FromPkgmngr)
        => tree.files[f] = tree.files[g]

\* C9: whenever the modification time of stage3.tar after the fetch is greater
\* than before it (0 when there was no archive, so on the first run too, where
\* removing the absent tree succeeds), the old tree is removed and the new
\* archive is extracted into an empty directory; the stage3 tree the following
\* steps use holds the files of that one archive, and the tree never holds a
\* mix of two snapshots.
C9_NewArchiveReplacesTree ==
    /\ OneSnapshot(stage3)
    /\ \A i \in 1..Len(AllCalls) : OneSnapshot(AllCalls[i].stage3)
    /\ (Passed("curl") /\ tar.mtime > old) =>
         /\ pc # "rmtree" => InTrace("rmtree")
         /\ Passed("rmtree") /\ pc # "extract" => InTrace("extract")
         /\ Passed("extract") =>
              /\ DOMAIN stage3.files = FileNames
              /\ \A f \in FileNames : stage3.files[f] \in {tar.snap, FromPkgmngr}
              /\ \A f \in FileNames \ DOMAIN pkgmngr.files : stage3.files[f] = tar.snap

\* A run that replaced the extracted tree of an older snapshot and ran to its end.
C9_Witness ==
    /\ pc = "done"
    /\ tar.mtime > old
    /\ Complete(cache0.stage3)
    /\ cache0.tar.exists
    /\ cache0.tar.snap # tar.snap
    /\ stage3.files["usr"] = tar.snap

(* ---- C10 ---- *)
\* C10 as stated: the cached make.conf holds as many appended FEATURES lines as
\* runs reached the make.conf step since the tree was last extracted, and the
\* pkgmngr tree is a copy of stage3 made before the append: it holds the files
\* of stage3 with one appended line fewer.
C10_PkgmngrIsCopy ==
    Passed("makeconf") =>
        /\ stage3.appended = reached
        /\ DOMAIN pkgmngr.files = DOMAIN stage3.files
        /\ pkgmngr.appended = stage3.appended - 1

\* C10, amended: each run that reaches the make.conf step appends exactly one
\* FEATURES line to stage3/etc/portage/make.conf in the cache, after
\* state.pkgmngr has been copied into stage3 (install never writes to
\* state.pkgmngr).  The number of appended lines in the cached make.conf equals
\* the number of runs that reached that step since make.conf was last written
\* anew, by an extraction or by the copy of a pkgmngr tree that holds a
\* make.conf of its own; without such a file it equals the number of runs since
\* the last extraction, so the append is not idempotent on a reused tree.
C10_AppendCounts ==
    /\ stage3.appended = appends
    /\ pkgmngr \in PkgmngrTrees
    /\ "makeconf" \notin DOMAIN pkgmngr.files => appends = reached
    /\ InTrace("makeconf") => \E i \in 1..(Len(trace) - 1) : trace[i] = "copy"
    /\ Passed("makeconf") =>
         /\ stage3.appended >= 1
         /\ "makeconf" \in DOMAIN pkgmngr.files => stage3.appended = 1
         /\ ("makeconf" \notin DOMAIN pkgmngr.files /\ ~InTrace("extract"))
              => stage3.appended = cache0.stage3.appended + 1
         /\ InTrace("extract") => stage3.appended = 1

\* The second append to the make.conf of a reused tree.
C10_Witness ==
    /\ Passed("makeconf")
    /\ ~InTrace("extract")
    /\ stage3.appended = 2
    /\ pkgmngr.files = NoFiles

====
